---- MODULE Spec2Model ----
(***************************************************************************)
(* Model of the FT individualization SRAM program                          *)
(* (sram_ft_individualize.c): sram_main, peripheral_handles_init and the   *)
(* command_processor loop.  A program position "Lnn" is the statement at   *)
(* line nn of sram_ft_individualize.c.                                     *)
(***************************************************************************)
EXTENDS Naturals, Sequences, FiniteSets

\* Bound on the number of commands the transport delivers in one run.
MaxCmds == 3

\* Bound on the bit sizes the attestation size conversions are applied to.
MaxBits == 520

---------------------------------------------------------------------------
\* Commands (ft_individualize_command_t) and the values outside the enum.
kFtIndividualizeCommandWriteAll == "WriteAll"
kFtIndividualizeCommandOtpCreatorSwCfgWrite == "OtpCreatorSwCfgWrite"
kFtIndividualizeCommandOtpOwnerSwCfgWrite == "OtpOwnerSwCfgWrite"
kFtIndividualizeCommandOtpHwCfgWrite == "OtpHwCfgWrite"
kFtIndividualizeCommandDone == "Done"

RecognizedCommands ==
  { kFtIndividualizeCommandWriteAll,
    kFtIndividualizeCommandOtpCreatorSwCfgWrite,
    kFtIndividualizeCommandOtpOwnerSwCfgWrite,
    kFtIndividualizeCommandOtpHwCfgWrite,
    kFtIndividualizeCommandDone }

UnrecognizedCommands == { "0xFF", "0x7F" }

Commands == RecognizedCommands \cup UnrecognizedCommands

\* OTP partitions written by the manuf_individualize_device_* functions.
CreatorSwCfg == "CREATOR_SW_CFG"
OwnerSwCfg == "OWNER_SW_CFG"
HwCfg == "HW_CFG"
Partitions == { CreatorSwCfg, OwnerSwCfg, HwCfg }

\* Life cycle states of the device.
kDifLcCtrlStateTestUnlocked0 == "TestUnlocked0"
kDifLcCtrlStateTestUnlocked1 == "TestUnlocked1"
kDifLcCtrlStateDev == "Dev"
kDifLcCtrlStateProd == "Prod"
LcStates ==
  { kDifLcCtrlStateTestUnlocked0, kDifLcCtrlStateTestUnlocked1,
    kDifLcCtrlStateDev, kDifLcCtrlStateProd }
MissionModeStates == { kDifLcCtrlStateDev, kDifLcCtrlStateProd }

\* status_t values that matter to the control flow.
OK_STATUS == "OK"
INVALID_ARGUMENT == "INVALID_ARGUMENT"
INTERNAL == "INTERNAL"
ERR_STATUS == "ERR"

---------------------------------------------------------------------------
VARIABLES
  pc,        \* position of the single execution context
  lc_state,  \* life cycle state held by the lc_ctrl hardware
  handles,   \* DIF handles initialized so far, in order
  command,   \* the local `command` of command_processor
  otp,       \* per partition: number of successful writes
  status,    \* status_t last returned to sram_main
  lc_read,   \* the life cycle state the guard read ("none" before it ran)
  log,       \* history: commands decoded, writes invoked, responses emitted
  sizes      \* attestation.h: a size in bits and its derived sizes

vars ==
  << pc, lc_state, handles, command, otp, status, lc_read, log, sizes >>

\* A history entry; n is the number of commands decoded so far.
NumEv(l, e) == Cardinality({ i \in DOMAIN l : l[i].ev = e })
DecodeEv(l, c) ==
  [ev |-> "decode", arg |-> c, ok |-> TRUE, n |-> NumEv(l, "decode") + 1]
WriteEv(l, p, b) ==
  [ev |-> "write", arg |-> p, ok |-> b, n |-> NumEv(l, "decode")]
DecodeFailEv(l) ==
  [ev |-> "decode_fail", arg |-> "none", ok |-> FALSE,
   n |-> NumEv(l, "decode")]
RespEv(l, s) ==
  [ev |-> "resp", arg |-> s, ok |-> (s = OK_STATUS), n |-> NumEv(l, "decode")]

---------------------------------------------------------------------------
\* Response macros of the ujson console: one status record on the wire.
RESP_OK_STATUS(l) == Append(l, RespEv(l, OK_STATUS))

\* Emits the error status and yields it as a value; control continues with
\* the statement that follows.
RESP_ERR(l, s) == Append(l, RespEv(l, s))

\* lc_ctrl_testutils_check_lc_state: OK iff the hardware state is `expected`.
lc_ctrl_testutils_check_lc_state(state, expected) == state = expected

\* manuf_individualize_device_*: a successful call commits the partition.
WritePartition(o, p, ok) ==
  IF ok THEN [o EXCEPT ![p] = @ + 1] ELSE o

---------------------------------------------------------------------------
\* sram_main, line 99: the state the guard asks for.
ExpectedLcState_Unlocked0 == kDifLcCtrlStateTestUnlocked0
ExpectedLcState == kDifLcCtrlStateTestUnlocked1

\* sram_main, lines 93-99: the guard follows the console set-up.
AfterConsoleInit_NoGuard == "L56"
AfterConsoleInit == "L98"

\* command_processor, the case labels of the switch at line 57.
CaseLabel_WriteOnce(c) ==
  CASE c = kFtIndividualizeCommandWriteAll ->
         IF \E p \in Partitions : otp[p] > 0 THEN "L83" ELSE "L60"
    [] c = kFtIndividualizeCommandOtpCreatorSwCfgWrite ->
         IF otp[CreatorSwCfg] > 0 THEN "L83" ELSE "L67"
    [] c = kFtIndividualizeCommandOtpOwnerSwCfgWrite ->
         IF otp[OwnerSwCfg] > 0 THEN "L83" ELSE "L71"
    [] c = kFtIndividualizeCommandOtpHwCfgWrite ->
         IF otp[HwCfg] > 0 THEN "L83" ELSE "L76"
    [] c = kFtIndividualizeCommandDone -> "L80"
    [] OTHER -> "L83"
CaseLabel(c) ==
  CASE c = kFtIndividualizeCommandWriteAll -> "L60"
    [] c = kFtIndividualizeCommandOtpCreatorSwCfgWrite -> "L67"
    [] c = kFtIndividualizeCommandOtpOwnerSwCfgWrite -> "L71"
    [] c = kFtIndividualizeCommandOtpHwCfgWrite -> "L76"
    [] c = kFtIndividualizeCommandDone -> "L80"
    [] OTHER -> "L83"

\* The function called at each call site of the switch.
Callee_Swapped ==
  [ L60 |-> OwnerSwCfg, L61 |-> CreatorSwCfg, L63 |-> HwCfg,
    L67 |-> CreatorSwCfg, L71 |-> OwnerSwCfg, L76 |-> HwCfg ]
Callee_CopyPaste ==
  [ L60 |-> CreatorSwCfg, L61 |-> OwnerSwCfg, L63 |-> HwCfg,
    L67 |-> CreatorSwCfg, L71 |-> CreatorSwCfg, L76 |-> HwCfg ]
Callee ==
  [ L60 |-> CreatorSwCfg, L61 |-> OwnerSwCfg, L63 |-> HwCfg,
    L67 |-> CreatorSwCfg, L71 |-> OwnerSwCfg, L76 |-> HwCfg ]

\* Where control goes after a call site succeeds: the next statement of the
\* case, or (break) the statement after the switch, line 85.
AfterCall_EarlyBreak ==
  [ L60 |-> "L61", L61 |-> "L85", L63 |-> "L85",
    L67 |-> "L85", L71 |-> "L85", L76 |-> "L85" ]
AfterCall_Continue ==
  [ L60 |-> "L61", L61 |-> "L63", L63 |-> "L85",
    L67 |-> "L56", L71 |-> "L85", L76 |-> "L85" ]
AfterCall ==
  [ L60 |-> "L61", L61 |-> "L63", L63 |-> "L85",
    L67 |-> "L85", L71 |-> "L85", L76 |-> "L85" ]

\* The macro wrapped around each call site.
Wrapper_Unchecked ==
  [ L60 |-> "CHECK_STATUS_OK", L61 |-> "CHECK_STATUS_OK", L63 |-> "NONE",
    L67 |-> "CHECK_STATUS_OK", L71 |-> "CHECK_STATUS_OK",
    L76 |-> "CHECK_STATUS_OK" ]
Wrapper ==
  [ L60 |-> "CHECK_STATUS_OK", L61 |-> "CHECK_STATUS_OK",
    L63 |-> "CHECK_STATUS_OK", L67 |-> "CHECK_STATUS_OK",
    L71 |-> "CHECK_STATUS_OK", L76 |-> "CHECK_STATUS_OK" ]

\* CHECK_STATUS_OK aborts on a failed status; an unchecked call goes on.
AfterStatus(l, ok) ==
  IF ok \/ Wrapper[l] # "CHECK_STATUS_OK" THEN AfterCall[l] ELSE "aborted"

\* The default label is the last of the switch: after its statements control
\* leaves the switch and reaches line 85.
AfterDefault_Return == "L102"
AfterDefault == "L85"

\* The done case: `return RESP_OK_STATUS(uj)` leaves command_processor.
AfterDone_Break == "L85"
AfterDone_Continue == "L56"
AfterDone == "L102"

\* TRY at line 56: a decode failure is returned to the caller, line 102.
AfterDecodeFail_Recover == "L83"
AfterDecodeFail == "L102"

\* sram_main lines 102-106: after command_processor returns OK the next
\* statement is abort() at line 106.
AfterCommandProcessor_NoAbort == "returned"
AfterCommandProcessor == "L106"

\* The condition of the loop, line 54: while (true).  When a loop condition
\* fails control reaches line 88, `return INTERNAL()`.
LoopCondition_Bounded == NumEv(log, "decode") < 2
LoopCondition == TRUE

\* The end of the loop body, line 86: back to the head of while (true).
AfterRespond == "L56"

---------------------------------------------------------------------------
Init ==
  /\ pc = "L40"
  /\ lc_state \in LcStates
  /\ handles = << >>
  /\ command = "none"
  /\ otp = [p \in Partitions |-> 0]
  /\ status = "none"
  /\ lc_read = "none"
  /\ log = << >>
  /\ sizes = [bits |-> 0, bytes |-> 0, words |-> 0, step |-> "idle"]

\* peripheral_handles_init: one TRY(dif_*_init(...)) per handle.
InitHandle(l, h, nxt) ==
  /\ pc = l
  /\ \E ok \in BOOLEAN :
       IF ok
         THEN /\ handles' = Append(handles, h)
              /\ pc' = nxt
              /\ status' = IF nxt = "L92" THEN OK_STATUS ELSE status
         ELSE /\ handles' = handles
              /\ pc' = "L92"
              /\ status' = ERR_STATUS
  /\ UNCHANGED << lc_state, command, otp, log, lc_read, sizes >>

InitFlashCtrl == InitHandle("L40", "flash_ctrl_state", "L43")
InitLcCtrl == InitHandle("L43", "lc_ctrl", "L45")
InitOtpCtrl_NoTry ==
  /\ pc = "L45"
  /\ \E ok \in BOOLEAN :
       handles' = IF ok THEN Append(handles, "otp_ctrl") ELSE handles
  /\ pc' = "L47"
  /\ UNCHANGED << lc_state, command, otp, status, log, lc_read, sizes >>
InitOtpCtrl == InitHandle("L45", "otp_ctrl", "L47")
InitPinmux == InitHandle("L47", "pinmux", "L92")

\* sram_main line 92: CHECK_STATUS_OK(peripheral_handles_init()).
CheckHandlesInit ==
  /\ pc = "L92"
  /\ pc' = IF status = OK_STATUS THEN "L93" ELSE "aborted"
  /\ UNCHANGED << lc_state, handles, command, otp, status, log, lc_read,
                  sizes >>

\* sram_main lines 93-95: pinmux, console and ujson set-up.
ConsoleInit ==
  /\ pc = "L93"
  /\ pc' = AfterConsoleInit
  /\ UNCHANGED << lc_state, handles, command, otp, status, log, lc_read,
                  sizes >>

\* sram_main lines 98-99: the life cycle guard.
LcStateCheck ==
  /\ pc = "L98"
  /\ pc' = IF lc_ctrl_testutils_check_lc_state(lc_state, ExpectedLcState)
             THEN "L56" ELSE "aborted"
  /\ lc_read' = lc_state
  /\ UNCHANGED << lc_state, handles, command, otp, status, log, sizes >>

\* command_processor line 56: the transport yields a command ...
Deserialize ==
  /\ pc = "L56"
  /\ NumEv(log, "decode") < MaxCmds
  /\ \E c \in Commands :
       /\ command' = c
       /\ log' = Append(log, DecodeEv(log, c))
  /\ pc' = "L57"
  /\ UNCHANGED << lc_state, handles, otp, status, lc_read, sizes >>

\* ... or a decode failure, which TRY returns to sram_main.
DeserializeFail ==
  /\ pc = "L56"
  /\ log' = Append(log, DecodeFailEv(log))
  /\ status' = IF AfterDecodeFail = "L102" THEN ERR_STATUS ELSE status
  /\ pc' = AfterDecodeFail
  /\ UNCHANGED << lc_state, handles, command, otp, lc_read, sizes >>

\* command_processor line 57: switch (command).
Switch ==
  /\ pc = "L57"
  /\ pc' = CaseLabel(command)
  /\ UNCHANGED << lc_state, handles, command, otp, status, log, lc_read,
                  sizes >>

\* A call site CHECK_STATUS_OK(manuf_individualize_device_*(...)).
CallWrite(l) ==
  /\ pc = l
  /\ \E ok \in BOOLEAN :
       /\ log' = Append(log, WriteEv(log, Callee[l], ok))
       /\ otp' = WritePartition(otp, Callee[l], ok)
       /\ pc' = AfterStatus(l, ok)
  /\ UNCHANGED << lc_state, handles, command, status, lc_read, sizes >>

WriteAllCreatorSwCfg == CallWrite("L60")
WriteAllOwnerSwCfg == CallWrite("L61")
WriteAllHwCfg == CallWrite("L63")
WriteCreatorSwCfg == CallWrite("L67")
WriteOwnerSwCfg == CallWrite("L71")
WriteHwCfg == CallWrite("L76")

\* command_processor lines 78-80: the done case.
CaseDone ==
  /\ pc = "L80"
  /\ log' = RESP_OK_STATUS(log)
  /\ status' = IF AfterDone = "L102" THEN OK_STATUS ELSE status
  /\ pc' = AfterDone
  /\ UNCHANGED << lc_state, handles, command, otp, lc_read, sizes >>

\* command_processor lines 81-83: the default case.
CaseDefault ==
  /\ pc = "L83"
  /\ log' = RESP_ERR(log, INVALID_ARGUMENT)
  /\ status' = IF AfterDefault = "L102" THEN INVALID_ARGUMENT ELSE status
  /\ pc' = AfterDefault
  /\ UNCHANGED << lc_state, handles, command, otp, lc_read, sizes >>

\* command_processor lines 85-88: RESP_OK_STATUS(uj) after the switch, then
\* the loop condition: the next iteration, or the return of line 88.
RespondOk ==
  /\ pc = "L85"
  /\ log' = RESP_OK_STATUS(log)
  /\ status' = IF LoopCondition THEN status ELSE INTERNAL
  /\ pc' = IF LoopCondition THEN AfterRespond ELSE "L102"
  /\ UNCHANGED << lc_state, handles, command, otp, lc_read, sizes >>

\* sram_main line 102: CHECK_STATUS_OK(command_processor(&uj)).
CheckCommandProcessor ==
  /\ pc = "L102"
  /\ pc' = IF status = OK_STATUS THEN AfterCommandProcessor ELSE "aborted"
  /\ UNCHANGED << lc_state, handles, command, otp, status, log, lc_read,
                  sizes >>

\* sram_main line 106: abort() parks the CPU.
Halt ==
  /\ pc = "L106"
  /\ pc' = "halted"
  /\ UNCHANGED << lc_state, handles, command, otp, status, log, lc_read,
                  sizes >>

\* The environment: with the CPU parked, JTAG performs the life cycle
\* transition to mission mode.
JtagLcTransition ==
  /\ pc = "halted"
  /\ lc_state = kDifLcCtrlStateTestUnlocked1
  /\ lc_state' \in MissionModeStates
  /\ UNCHANGED << pc, handles, command, otp, status, log, lc_read, sizes >>

Next ==
  \/ InitFlashCtrl
  \/ InitLcCtrl
  \/ InitOtpCtrl
  \/ InitPinmux
  \/ CheckHandlesInit
  \/ ConsoleInit
  \/ LcStateCheck
  \/ Deserialize
  \/ DeserializeFail
  \/ Switch
  \/ WriteAllCreatorSwCfg
  \/ WriteAllOwnerSwCfg
  \/ WriteAllHwCfg
  \/ WriteCreatorSwCfg
  \/ WriteOwnerSwCfg
  \/ WriteHwCfg
  \/ CaseDone
  \/ CaseDefault
  \/ RespondOk
  \/ CheckCommandProcessor
  \/ Halt
  \/ JtagLcTransition

Spec == Init /\ [][Next]_vars

\* The steps the CPU takes on its own: every statement but the blocking read
\* of the transport.  The single execution context runs each of them to its
\* end; the transport and JTAG are the environment and owe nothing.
CpuStep ==
  \/ InitFlashCtrl
  \/ InitLcCtrl
  \/ InitOtpCtrl
  \/ InitPinmux
  \/ CheckHandlesInit
  \/ ConsoleInit
  \/ LcStateCheck
  \/ Switch
  \/ WriteAllCreatorSwCfg
  \/ WriteAllOwnerSwCfg
  \/ WriteAllHwCfg
  \/ WriteCreatorSwCfg
  \/ WriteOwnerSwCfg
  \/ WriteHwCfg
  \/ CaseDone
  \/ CaseDefault
  \/ RespondOk
  \/ CheckCommandProcessor
  \/ Halt

FairSpec == Spec /\ WF_vars(CpuStep)

---------------------------------------------------------------------------
\* attestation.h: the size constants of the enum, lines 14-52.
SizeofUint32 == 4

\* `bits / 8` of lines 22, 34 and 47 (integer division).
BitsToBytes(b) == b \div 8

\* `bytes / sizeof(uint32_t)` of lines 26, 38-39 and 51.
BytesToWords_Uint64(b) == b \div (2 * SizeofUint32)
BytesToWords(b) == b \div SizeofUint32

kAttestationSeedBits == 320
kAttestationSeedBytes == BitsToBytes(kAttestationSeedBits)
kAttestationSeedWords == BytesToWords(kAttestationSeedBytes)
kAttestationPublicKeyCoordBits == 256
kAttestationPublicKeyCoordBytes == BitsToBytes(kAttestationPublicKeyCoordBits)
kAttestationPublicKeyCoordWords ==
  BytesToWords(kAttestationPublicKeyCoordBytes)
kAttestationSignatureBits == 512
kAttestationSignatureBytes == BitsToBytes(kAttestationSignatureBits)
kAttestationSignatureWords == BytesToWords(kAttestationSignatureBytes)

\* sizeof of the three structures: arrays of uint32_t, no padding.
attestation_seed_t == kAttestationSeedWords * SizeofUint32
attestation_public_key_t ==
  kAttestationPublicKeyCoordWords * SizeofUint32
    + kAttestationPublicKeyCoordWords * SizeofUint32
attestation_signature_t == kAttestationSignatureWords * SizeofUint32

\* The derivation of the byte and word sizes from a size in bits, one
\* enumerator at a time, for any size in bits up to MaxBits.
InitAttest ==
  /\ pc = "L40"
  /\ lc_state = kDifLcCtrlStateTestUnlocked1
  /\ handles = << >>
  /\ command = "none"
  /\ otp = [p \in Partitions |-> 0]
  /\ status = "none"
  /\ lc_read = "none"
  /\ log = << >>
  /\ \E b \in 0..MaxBits :
       sizes = [bits |-> b, bytes |-> 0, words |-> 0, step |-> "bits"]

AttestBytes ==
  /\ sizes.step = "bits"
  /\ sizes' = [sizes EXCEPT !.bytes = BitsToBytes(sizes.bits),
                            !.step = "bytes"]
  /\ UNCHANGED << pc, lc_state, handles, command, otp, status, lc_read, log >>

AttestWords ==
  /\ sizes.step = "bytes"
  /\ sizes' = [sizes EXCEPT !.words = BytesToWords(sizes.bytes),
                            !.step = "words"]
  /\ UNCHANGED << pc, lc_state, handles, command, otp, status, lc_read, log >>

NextAttest ==
  \/ AttestBytes
  \/ AttestWords

SpecAttest == InitAttest /\ [][NextAttest]_vars

---------------------------------------------------------------------------
TypeOK ==
  /\ lc_state \in LcStates
  /\ command \in Commands \cup {"none"}
  /\ status \in {"none", OK_STATUS, ERR_STATUS, INVALID_ARGUMENT, INTERNAL}
  /\ lc_read \in LcStates \cup {"none"}
  /\ \A p \in Partitions : otp[p] \in Nat

---------------------------------------------------------------------------
\* Reading the history.
NumCmds == NumEv(log, "decode")
CmdIds == 1..NumCmds
EventsOf(k, e) == SelectSeq(log, LAMBDA x : x.ev = e /\ x.n = k)
WritesOf(k) == EventsOf(k, "write")
RespsOf(k) == EventsOf(k, "resp")
CmdAt(k) == EventsOf(k, "decode")[1].arg
Args(sq) == [i \in DOMAIN sq |-> sq[i].arg]
IsPrefix(sq, t) ==
  /\ Len(sq) <= Len(t)
  /\ \A i \in 1..Len(sq) : sq[i] = t[i]
LastEv == log[Len(log)]
OkWrites(p) ==
  Cardinality({ i \in DOMAIN log :
                  log[i].ev = "write" /\ log[i].arg = p /\ log[i].ok })

\* The command table: the partition writes each command stands for.
WriteAllOrder == << CreatorSwCfg, OwnerSwCfg, HwCfg >>
SinglePartitionCommands ==
  { kFtIndividualizeCommandOtpCreatorSwCfgWrite,
    kFtIndividualizeCommandOtpOwnerSwCfgWrite,
    kFtIndividualizeCommandOtpHwCfgWrite }
OwnPartition(c) ==
  CASE c = kFtIndividualizeCommandOtpCreatorSwCfgWrite -> CreatorSwCfg
    [] c = kFtIndividualizeCommandOtpOwnerSwCfgWrite -> OwnerSwCfg
    [] c = kFtIndividualizeCommandOtpHwCfgWrite -> HwCfg
ExpectedWrites(c) ==
  IF c = kFtIndividualizeCommandWriteAll THEN WriteAllOrder
  ELSE IF c \in SinglePartitionCommands THEN << OwnPartition(c) >>
  ELSE << >>

\* Positions inside command_processor, and its call sites.
CallSites == { "L60", "L61", "L63", "L67", "L71", "L76" }
InCommand == CallSites \cup { "L57", "L80", "L83", "L85" }
AfterLoop == { "L102", "L106", "halted" }
\* Command k has been handled to its end.
Completed(k) ==
  \/ k < NumCmds
  \/ k = NumCmds /\ pc = "L56"
  \/ k = NumCmds /\ pc \in AfterLoop /\ status = OK_STATUS
  \/ k = NumCmds /\ pc \in { "L102", "aborted" } /\ status = ERR_STATUS
       /\ LastEv.ev = "decode_fail"

---------------------------------------------------------------------------
\* C1: when a run has handled a command sequence ending in done (and has
\* halted, every hardware action having succeeded), the number of responses
\* equals the number of commands, no command has more than one response, and
\* the last response is the success response for done.
C1_OneResponsePerCommand ==
  pc = "halted" =>
    /\ NumEv(log, "resp") = NumCmds
    /\ \A k \in CmdIds : Len(RespsOf(k)) <= 1
    /\ CmdAt(NumCmds) = kFtIndividualizeCommandDone
    /\ LastEv.ev = "resp" /\ LastEv.arg = OK_STATUS /\ LastEv.n = NumCmds

\* C2: an unrecognized command invokes no partition write and its responses
\* are a single invalid-argument error, never a success response.
C2_UnrecognizedSingleError ==
  \A k \in CmdIds :
    CmdAt(k) \in UnrecognizedCommands =>
      /\ WritesOf(k) = << >>
      /\ Len(RespsOf(k)) <= 1
      /\ \A i \in DOMAIN RespsOf(k) : RespsOf(k)[i].arg = INVALID_ARGUMENT

\* C3: the writes of a write-all command are a prefix of creator-config,
\* owner-config, hardware-config (fixed order, each at most once), and a
\* write is invoked only if every earlier write of the command succeeded.
C3_WriteAllOrder ==
  \A k \in CmdIds :
    CmdAt(k) = kFtIndividualizeCommandWriteAll =>
      /\ IsPrefix(Args(WritesOf(k)), WriteAllOrder)
      /\ \A i \in DOMAIN WritesOf(k) :
           i < Len(WritesOf(k)) => WritesOf(k)[i].ok

\* C3 witness: a write-all whose owner-config write failed; hardware-config
\* was never invoked.
C3_Witness ==
  \E k \in CmdIds :
    /\ CmdAt(k) = kFtIndividualizeCommandWriteAll
    /\ Args(WritesOf(k)) = << CreatorSwCfg, OwnerSwCfg >>
    /\ WritesOf(k)[1].ok /\ ~WritesOf(k)[2].ok
    /\ pc = "aborted"

\* C4: if the guard read any state but TEST_UNLOCKED1 the run is aborted with
\* no command decoded, no partition written and no response emitted; control
\* is inside or past command_processor only if the guard read TEST_UNLOCKED1.
C4_GuardRejects ==
  /\ lc_read \notin { "none", kDifLcCtrlStateTestUnlocked1 } =>
       /\ pc = "aborted"
       /\ log = << >>
       /\ command = "none"
       /\ \A p \in Partitions : otp[p] = 0
  /\ pc \in InCommand \cup AfterLoop \cup { "L56" } =>
       lc_read = kDifLcCtrlStateTestUnlocked1

\* C4 witness: the guard has read an unauthorized state and the run aborted.
C4_Witness ==
  /\ lc_read = kDifLcCtrlStateProd
  /\ pc = "aborted"
  /\ Len(handles) = 4

\* C5: a failed partition write is the last thing that happens: no response,
\* no further write and no further command follow it, and the process is
\* aborted.  For write-all with the hardware-config write failing,
\* creator-config and owner-config were written by the command and
\* hardware-config was not.
C5_FailStop ==
  /\ \A i \in DOMAIN log :
       (log[i].ev = "write" /\ ~log[i].ok) =>
         /\ i = Len(log)
         /\ pc = "aborted"
         /\ RespsOf(log[i].n) = << >>
  /\ \A p \in Partitions : otp[p] = OkWrites(p)
  /\ \A k \in CmdIds :
       ( /\ CmdAt(k) = kFtIndividualizeCommandWriteAll
         /\ Len(WritesOf(k)) = 3
         /\ ~WritesOf(k)[3].ok ) =>
           /\ WritesOf(k)[1] = [ev |-> "write", arg |-> CreatorSwCfg,
                                ok |-> TRUE, n |-> k]
           /\ WritesOf(k)[2] = [ev |-> "write", arg |-> OwnerSwCfg,
                                ok |-> TRUE, n |-> k]
           /\ WritesOf(k)[3].arg = HwCfg

\* C5 witness: the single command write-all, hardware-config failing.
C5_Witness ==
  /\ NumCmds = 1
  /\ CmdAt(1) = kFtIndividualizeCommandWriteAll
  /\ Len(WritesOf(1)) = 3
  /\ ~WritesOf(1)[3].ok
  /\ otp = [p \in Partitions |-> IF p = HwCfg THEN 0 ELSE 1]
  /\ pc = "aborted"

\* C6: an unrecognized command writes no partition and leaves the loop
\* running (control returns to awaiting the transport; the process neither
\* returns nor aborts because of it), and a recognized command that follows
\* it is handled as its table entry says: the same writes and one success
\* response.
C6_LoopContinues ==
  /\ \A k \in CmdIds :
       CmdAt(k) \in UnrecognizedCommands => WritesOf(k) = << >>
  /\ (command \in UnrecognizedCommands /\ pc \notin { "L57", "L83" }) =>
       \/ pc \in { "L85", "L56" }
       \/ pc \in { "L102", "aborted" } /\ status = ERR_STATUS
  /\ \A k \in CmdIds :
       ( /\ k > 1
         /\ CmdAt(k - 1) \in UnrecognizedCommands
         /\ CmdAt(k) \in RecognizedCommands
         /\ Completed(k) ) =>
           /\ Args(WritesOf(k)) = ExpectedWrites(CmdAt(k))
           /\ \A i \in DOMAIN WritesOf(k) : WritesOf(k)[i].ok
           /\ Args(RespsOf(k)) = << OK_STATUS >>

\* C6 witness: write-all handled in full right after an unrecognized command.
C6_Witness ==
  /\ NumCmds = 2
  /\ CmdAt(1) \in UnrecognizedCommands
  /\ CmdAt(2) = kFtIndividualizeCommandWriteAll
  /\ Args(WritesOf(2)) = WriteAllOrder
  /\ Args(RespsOf(2)) = << OK_STATUS >>
  /\ otp = [p \in Partitions |-> 1]
  /\ pc = "L56"

\* C7: done invokes no partition write and gets exactly one success
\* response, which is the last event of the run: the loop is left, no later
\* command is decoded, and control only moves on to the halt.
C7_DoneTerminates ==
  \A k \in CmdIds :
    CmdAt(k) = kFtIndividualizeCommandDone =>
      /\ k = NumCmds
      /\ WritesOf(k) = << >>
      /\ \/ RespsOf(k) = << >> /\ pc \in { "L57", "L80" }
         \/ /\ Args(RespsOf(k)) = << OK_STATUS >>
            /\ LastEv.ev = "resp" /\ LastEv.n = k
            /\ pc \in AfterLoop
            /\ status = OK_STATUS

\* C7 witness: halted after done, which followed another command.
C7_Witness ==
  /\ pc = "halted"
  /\ NumCmds = 2
  /\ CmdAt(2) = kFtIndividualizeCommandDone
  /\ Args(RespsOf(2)) = << OK_STATUS >>

OthersUntouched ==
  command \in SinglePartitionCommands =>
    (\A p \in Partitions \ { OwnPartition(command) } : otp'[p] = otp[p])

\* C9: a single-partition command invokes at most one write, that of its own
\* partition; once handled it has invoked exactly that one write and got
\* exactly one success response; and no step taken while it is the current
\* command changes either of the other two partitions.
C9_SinglePartition ==
  /\ [](\A k \in CmdIds :
          CmdAt(k) \in SinglePartitionCommands =>
            /\ IsPrefix(Args(WritesOf(k)), << OwnPartition(CmdAt(k)) >>)
            /\ Completed(k) =>
                 /\ Args(WritesOf(k)) = << OwnPartition(CmdAt(k)) >>
                 /\ WritesOf(k)[1].ok
                 /\ Args(RespsOf(k)) = << OK_STATUS >>)
  /\ [][OthersUntouched]_vars

\* C9 witness: write-owner-config handled; only owner-config is written.
C9_Witness ==
  /\ NumCmds = 1
  /\ CmdAt(1) = kFtIndividualizeCommandOtpOwnerSwCfgWrite
  /\ otp = [p \in Partitions |-> IF p = OwnerSwCfg THEN 1 ELSE 0]
  /\ Args(RespsOf(1)) = << OK_STATUS >>
  /\ pc = "L56"

\* C10: within a command the order is decode, writes, response: a response
\* is emitted only when all the writes of the command's table entry have been
\* invoked and succeeded, no write follows a response of the same command,
\* and every command before the current one has got its response.
C10_DecodeWriteRespond ==
  /\ \A i \in DOMAIN log :
       log[i].ev = "resp" =>
         LET before == SelectSeq(SubSeq(log, 1, i),
                                 LAMBDA x : x.ev = "write" /\ x.n = log[i].n)
         IN /\ Args(before) = ExpectedWrites(CmdAt(log[i].n))
            /\ \A j \in DOMAIN before : before[j].ok
            /\ before = WritesOf(log[i].n)
  /\ \A k \in CmdIds : k < NumCmds => Len(RespsOf(k)) >= 1

\* C10 witness: write-all got its response after its three writes, and the
\* next command has been decoded.
C10_Witness ==
  /\ NumCmds = 2
  /\ CmdAt(1) = kFtIndividualizeCommandWriteAll
  /\ Len(log) = 6
  /\ Args(SubSeq(log, 2, 4)) = WriteAllOrder
  /\ log[5].ev = "resp"
  /\ log[6].ev = "decode"

\* C11: when a run has halted and every command it decoded was a recognized
\* one (n non-terminal commands, then done), exactly n+1 responses were
\* emitted, one per command, all of them success responses, the last one for
\* done.
C11_AllSuccess ==
  (pc = "halted" /\ \A k \in CmdIds : CmdAt(k) \in RecognizedCommands) =>
    /\ NumEv(log, "resp") = NumCmds
    /\ \A k \in CmdIds : Args(RespsOf(k)) = << OK_STATUS >>
    /\ \A k \in CmdIds :
         k < NumCmds <=> CmdAt(k) # kFtIndividualizeCommandDone
    /\ LastEv.ev = "resp" /\ LastEv.n = NumCmds

\* C11 witness: [write-creator-config, write-owner-config, done] has been
\* handled: three success responses, then the halt.
C11_Witness ==
  /\ pc = "halted"
  /\ NumCmds = 3
  /\ CmdAt(1) = kFtIndividualizeCommandOtpCreatorSwCfgWrite
  /\ CmdAt(2) = kFtIndividualizeCommandOtpOwnerSwCfgWrite
  /\ CmdAt(3) = kFtIndividualizeCommandDone
  /\ Args(SelectSeq(log, LAMBDA x : x.ev = "resp"))
       = << OK_STATUS, OK_STATUS, OK_STATUS >>

\* C12: the attestation sizes are exact and consistent: seed 320 bits = 40
\* bytes = 10 words, public-key coordinate 256 bits = 32 bytes = 8 words (a
\* public key is 64 bytes), signature 512 bits = 64 bytes = 16 words, and
\* for each of the three sizes the divisions by 8 and by 4 lose no remainder.
AttestationBitSizes ==
  { kAttestationSeedBits, kAttestationPublicKeyCoordBits,
    kAttestationSignatureBits }
C12_AttestationSizes ==
  /\ kAttestationSeedBits = 320
  /\ kAttestationSeedBytes = 40
  /\ kAttestationSeedWords = 10
  /\ kAttestationPublicKeyCoordBits = 256
  /\ kAttestationPublicKeyCoordBytes = 32
  /\ kAttestationPublicKeyCoordWords = 8
  /\ kAttestationSignatureBits = 512
  /\ kAttestationSignatureBytes = 64
  /\ kAttestationSignatureWords = 16
  /\ attestation_seed_t = 40
  /\ attestation_public_key_t = 64
  /\ attestation_signature_t = 64
  /\ (sizes.step = "words" /\ sizes.bits \in AttestationBitSizes) =>
       /\ sizes.bytes * 8 = sizes.bits
       /\ sizes.words * SizeofUint32 = sizes.bytes
       /\ sizes.words * 32 = sizes.bits

\* C12 witness: the seed size has been converted: 320 bits, 40 bytes, 10
\* words.
C12_Witness ==
  sizes = [bits |-> kAttestationSeedBits, bytes |-> 40, words |-> 10,
           step |-> "words"]

\* Partition p was written successfully by a command before command k.
WrittenBefore(p, k) ==
  \E i \in DOMAIN log :
    log[i].ev = "write" /\ log[i].arg = p /\ log[i].ok /\ log[i].n < k

\* Positions of the current command before its first call has been made.
NotYetInvoked == { "L57", "L60", "L67", "L71", "L76" }

\* C13: the dispatcher keeps no record of written partitions: a command whose
\* partition was already written in this run is dispatched like any other;
\* its first write is invoked again on the hardware-access layer, and the
\* dispatcher never answers it with an error.
C13_NoWriteOnce ==
  \A k \in CmdIds :
    ( /\ ExpectedWrites(CmdAt(k)) # << >>
      /\ \E j \in DOMAIN ExpectedWrites(CmdAt(k)) :
           WrittenBefore(ExpectedWrites(CmdAt(k))[j], k)
      /\ (k < NumCmds \/ pc \notin NotYetInvoked) ) =>
        /\ WritesOf(k) # << >>
        /\ IsPrefix(Args(WritesOf(k)), ExpectedWrites(CmdAt(k)))
        /\ \A i \in DOMAIN RespsOf(k) : RespsOf(k)[i].arg = OK_STATUS
        /\ Completed(k) =>
             /\ Args(WritesOf(k)) = ExpectedWrites(CmdAt(k))
             /\ Args(RespsOf(k)) = << OK_STATUS >>

\* C13 witness: write-creator-config issued twice, both writes passed to the
\* hardware and both answered with success.
C13_Witness ==
  /\ NumCmds = 2
  /\ CmdAt(1) = kFtIndividualizeCommandOtpCreatorSwCfgWrite
  /\ CmdAt(2) = kFtIndividualizeCommandOtpCreatorSwCfgWrite
  /\ otp[CreatorSwCfg] = 2
  /\ Args(RespsOf(2)) = << OK_STATUS >>
  /\ pc = "L56"

\* C13 witness, second case: write-all followed by write-hardware-config.
C13_WitnessWriteAll ==
  /\ NumCmds = 2
  /\ CmdAt(1) = kFtIndividualizeCommandWriteAll
  /\ CmdAt(2) = kFtIndividualizeCommandOtpHwCfgWrite
  /\ otp = [p \in Partitions |-> IF p = HwCfg THEN 2 ELSE 1]
  /\ pc = "L56"

\* C14: a decode failure is the last thing that happens in command_processor:
\* no write, no response and no further decode follow it, the error status is
\* returned to sram_main, which aborts; control never re-enters the loop.
C14_DecodeFailureFatal ==
  \A i \in DOMAIN log :
    log[i].ev = "decode_fail" =>
      /\ i = Len(log)
      /\ status = ERR_STATUS
      /\ pc \in { "L102", "aborted" }
      /\ \A j \in DOMAIN log :
           log[j].ev = "resp" =>
             (j < i /\ log[j].n <= log[i].n)

\* C14 witness: after one handled command the transport failed to decode and
\* the run aborted.
C14_Witness ==
  /\ NumCmds = 1
  /\ Len(log) >= 2
  /\ LastEv.ev = "decode_fail"
  /\ log[Len(log) - 1].ev = "resp"
  /\ pc = "aborted"

\* Positions inside the loop of command_processor.
InLoop == InCommand \cup { "L56" }

\* A step that leaves the loop does so by the return of the done case, by
\* the return of a decode failure, or by the abort of a failed write.
LeavesLoopProperly ==
  (pc \in InLoop /\ pc' \notin InLoop) =>
    \/ pc = "L80" /\ pc' = "L102" /\ status' = OK_STATUS
    \/ pc = "L56" /\ pc' = "L102" /\ status' = ERR_STATUS
    \/ pc \in CallSites /\ pc' = "aborted"

\* C15: command_processor never returns the internal-error status (the loop
\* never falls through to line 88), it returns success only after done has
\* been handled, and the loop is left only via done, a propagated transport
\* failure or a fatal abort.
C15_NoFallThrough ==
  /\ [](status # INTERNAL)
  /\ []((pc \in AfterLoop /\ status = OK_STATUS) =>
          /\ NumCmds >= 1
          /\ CmdAt(NumCmds) = kFtIndividualizeCommandDone
          /\ LastEv.ev = "resp" /\ LastEv.arg = OK_STATUS
          /\ LastEv.n = NumCmds)
  /\ [][LeavesLoopProperly]_vars

\* C15 witness: command_processor has returned success; done was the only
\* command.
C15_Witness ==
  /\ pc = "L102"
  /\ status = OK_STATUS
  /\ NumCmds = 1
  /\ CmdAt(1) = kFtIndividualizeCommandDone

\* Why a run is in the aborted state.
AbortedByHandleInit ==
  Len(handles) < 4 /\ status = ERR_STATUS /\ lc_read = "none" /\ log = << >>
AbortedByLcMismatch ==
  /\ Len(handles) = 4
  /\ lc_read \notin { "none", kDifLcCtrlStateTestUnlocked1 }
  /\ log = << >>
AbortedByWriteFailure ==
  /\ lc_read = kDifLcCtrlStateTestUnlocked1
  /\ log # << >> /\ LastEv.ev = "write" /\ ~LastEv.ok
AbortedByCommandProcessor ==
  /\ lc_read = kDifLcCtrlStateTestUnlocked1
  /\ status # OK_STATUS
  /\ log # << >> /\ LastEv.ev = "decode_fail"

\* C16: control never returns from sram_main to its caller: a run that can
\* take no further step is halted or aborted; an aborted run was aborted by a
\* handle-initialization failure, a life cycle mismatch, a partition-write
\* failure or an error status of command_processor; a halted run has handled
\* done.
C16_NeverReturns ==
  /\ pc # "returned"
  /\ ~ENABLED Next => pc \in { "halted", "aborted" }
  /\ pc = "aborted" =>
       \/ AbortedByHandleInit
       \/ AbortedByLcMismatch
       \/ AbortedByWriteFailure
       \/ AbortedByCommandProcessor
  /\ pc = "halted" =>
       /\ status = OK_STATUS
       /\ CmdAt(NumCmds) = kFtIndividualizeCommandDone

\* C16 witness: the run is parked after done and JTAG has moved the device to
\* mission mode; no step is left.
C16_Witness ==
  /\ pc = "halted"
  /\ lc_state \in MissionModeStates
  /\ ~ENABLED Next

\* The transport has delivered done.
DoneDecoded == \E k \in CmdIds : CmdAt(k) = kFtIndividualizeCommandDone
\* The terminal success response has been emitted and the CPU is parked.
DoneHandled ==
  /\ pc = "halted"
  /\ LastEv.ev = "resp" /\ LastEv.arg = OK_STATUS /\ LastEv.n = NumCmds
\* A partition write or a decode has failed.
SomeFailure ==
  \E i \in DOMAIN log :
    \/ log[i].ev = "write" /\ ~log[i].ok
    \/ log[i].ev = "decode_fail"

\* C17: once the transport has delivered done the terminal success response
\* is eventually emitted and the process halts; a command being handled
\* eventually gets back to awaiting the transport unless the run ends; and
\* the loop is over only if done was delivered or a failure occurred.
C17_Termination ==
  /\ DoneDecoded ~> DoneHandled
  /\ (pc \in InCommand) ~> (pc \in { "L56", "halted", "aborted" })
  /\ []((lc_read = kDifLcCtrlStateTestUnlocked1 /\ pc \notin InLoop) =>
          (DoneDecoded \/ SomeFailure))

\* C17 witness: done arrived after two commands and the run halted with the
\* terminal response, no failure having occurred.
C17_Witness ==
  /\ NumCmds = 3
  /\ DoneDecoded
  /\ DoneHandled
  /\ ~SomeFailure

\* The handles in the order peripheral_handles_init initializes them.
HandleOrder == << "flash_ctrl_state", "lc_ctrl", "otp_ctrl", "pinmux" >>
InitPositions == { "L40", "L43", "L45", "L47" }

\* After peripheral_handles_init no step initializes a handle.
NoReinit == pc \notin InitPositions => handles' = handles
\* An initialization that fails skips the remaining ones.
FailedInitSkipsRest ==
  (pc \in InitPositions /\ handles' = handles /\ pc' # pc) =>
    (pc' = "L92" /\ status' = ERR_STATUS)

\* C18: the handles are initialized once each, in the order flash, life
\* cycle, OTP, pin-mux; all four are initialized before the life cycle check
\* and before any command is awaited, and none is initialized again; if an
\* initialization fails the rest are skipped and the run aborts with no life
\* cycle check, no command decoded and no partition written.
C18_HandlesInitOnce ==
  /\ [](IsPrefix(handles, HandleOrder))
  /\ [](pc \notin InitPositions \cup { "L92", "aborted" } =>
          handles = HandleOrder)
  /\ []((pc \notin InitPositions /\ handles # HandleOrder) =>
          /\ pc \in { "L92", "aborted" }
          /\ status = ERR_STATUS
          /\ lc_read = "none"
          /\ log = << >>
          /\ \A p \in Partitions : otp[p] = 0)
  /\ [][NoReinit]_vars
  /\ [][FailedInitSkipsRest]_vars

\* C18 witness: the OTP handle failed to initialize: pin-mux was skipped and
\* the run aborted before the life cycle check.
C18_Witness ==
  /\ handles = << "flash_ctrl_state", "lc_ctrl" >>
  /\ pc = "aborted"
  /\ lc_read = "none"
  /\ log = << >>
====
